---- MODULE Spec2Model ----
(***************************************************************************)
(* coral: the stream decoder (Analyzer, src/src/lib.rs) and the watch loop *)
(* (main, src/src/main.rs) as one state machine.                           *)
(*                                                                         *)
(* Bytes are one-character strings.  A record of the checker's output is   *)
(* written "{" k "}" where k names one of a few entries; anything else is  *)
(* malformed JSON for serde_json::from_slice.                              *)
(***************************************************************************)
EXTENDS Integers, Sequences, FiniteSets, TLC

VARIABLES
    pc,          \* where the main thread is
    entries,     \* main: `entries`, the snapshot
    collected,   \* run: the Vec that collect() is filling
    printed,     \* run: the indices print::entry has printed, with their entry
    yielded,     \* the entries the current Analyzer has yielded so far
    parsed,      \* the entry_buffers the current Analyzer handed to serde_json
    records,     \* the lines the current child writes to its stdout
    fragment,    \* what the child writes after its last newline
    pipe,        \* child.stdout: the bytes not read yet
    stderr,      \* child.stderr: what the child has still to write to it,
                 \* and what the pipe holds; nothing reads it
    buffer,      \* Analyzer.buffer
    live,        \* children spawned and not waited on
    runs,        \* runs started so far
    snap,        \* runs completed so far: the number of the snapshot in `entries`
    spawned,     \* the input thread and the watcher exist
    reader,      \* the input thread: "reading" or "returned"
    typed,       \* lines read from stdin so far
    heard,       \* the line the input thread read last, if any
    command_rx,  \* the command channel
    event_rx,    \* the watch channel
    window,      \* the debouncer: the window that is open, 0 when none is
    rawIn,       \* per debounce window, the write events that fell into it
    ranFor,      \* per debounce window, the runs started on its account
    writes,      \* writes made by other programs so far
    files,       \* the contents of the files the spans name
    out,         \* what the command of this loop iteration printed
    lastOp,      \* what that command reached: a message of the snapshot, or quit
    fixPending   \* a fix succeeded and no run has started since

vars == <<pc, entries, collected, printed, yielded, parsed, records, fragment,
          pipe, stderr, buffer, live, runs, snap, spawned, reader, typed,
          heard,
          command_rx,
          event_rx, window, rawIn, ranFor, writes, files, out, lastOp,
          fixPending>>

decoderVars == <<yielded, parsed, pipe, stderr, buffer>>
threadVars == <<reader, typed, heard, command_rx>>
watchVars == <<event_rx, window, rawIn, ranFor, writes>>

----------------------------------------------------------------------------
(* Bounds *)

MaxRecords == 2
MaxLines == 2
MaxWrites == 2
MaxContent == 3

\* What a pipe holds before a write to it blocks, in writes of the child.
PipeCapacity == 2

----------------------------------------------------------------------------
(* Sequences *)

Take(s, n) == SubSeq(s, 1, n)

Drop(s, n) == SubSeq(s, n + 1, Len(s))

IsPrefix(s, t) == Len(s) <= Len(t) /\ Take(t, Len(s)) = s

Min(a, b) == IF a <= b THEN a ELSE b

Contains(s, x) == \E i \in 1..Len(s) : s[i] = x

SeqsUpTo(S, n) == UNION {[1..k -> S] : k \in 0..n}

RECURSIVE FilterSeq(_, _)
FilterSeq(s, keep) ==
    IF s = <<>> THEN <<>>
    ELSE IF Head(s) \in keep THEN <<Head(s)>> \o FilterSeq(Tail(s), keep)
    ELSE FilterSeq(Tail(s), keep)

----------------------------------------------------------------------------
(* The diagnostic model: lib.rs, Entry / Message / Span / Level *)

NL == "\n"

\* Option<T>: None is the empty sequence, Some(x) the sequence of x alone.
None == <<>>

Some(x) == <<x>>

\* A span of a one-line file: byte n is column n + 1 of line 1.
SpanFlagged(file, start, end, repl, primary) ==
    [file_name |-> file, byte_start |-> start, byte_end |-> end,
     line_start |-> 1, column_start |-> start + 1, is_primary |-> primary,
     suggested_replacement |-> repl]

Span(file, start, end, repl) == SpanFlagged(file, start, end, repl, TRUE)

Msg(level, spans, children, rendered) ==
    [level |-> level, spans |-> spans, children |-> children,
     rendered |-> rendered]

\* What serde_json decodes from the record "{" k "}".
EntryOf(k) ==
    CASE k = "A" -> [reason |-> "compiler-artifact", message |-> None]
      [] k = "W" -> [reason |-> "compiler-message",
                     message |-> Some(Msg("warning",
                        <<Span("src/a.rs", 0, 2, None)>>,
                        <<Msg("help", <<Span("src/a.rs", 0, 2, Some(<<"x">>))>>,
                              <<>>, None)>>,
                        Some("rendered W")))]
      [] k = "E" -> [reason |-> "compiler-message",
                     message |-> Some(Msg("error",
                        <<Span("src/a.rs", 1, 2, None)>>, <<>>, None))]
      [] k = "N" -> [reason |-> "compiler-message",
                     message |-> Some(Msg("", <<Span("src/a.rs", 0, 1, None)>>,
                                          <<>>, None))]
      [] k = "U" -> [reason |-> "compiler-message",
                     message |-> Some(Msg("warning",
                        <<Span("build.rs", 0, 1, Some(<<"y">>))>>, <<>>,
                        Some("rendered U")))]
      [] k = "B" -> [reason |-> "build-script-executed", message |-> None]
      [] k = "P" -> [reason |-> "compiler-message",
                     message |-> Some(Msg("error",
                        <<SpanFlagged("src/a.rs", 0, 1, None, TRUE),
                          SpanFlagged("src/a.rs", 1, 2, None, FALSE)>>,
                        <<>>, None))]

Kinds == {"A", "W", "E", "N", "U", "B", "P"}

\* A faulty parser that takes a record cut short for a whole one.
ParseLenient(bytes) ==
    /\ Len(bytes) >= 2
    /\ bytes[1] = "{"
    /\ bytes[2] \in Kinds

\* serde_json::from_slice(&entry_buffer): Ok for a whole record only.
ParseOk(bytes) ==
    /\ Len(bytes) = 3
    /\ bytes[1] = "{"
    /\ bytes[3] = "}"
    /\ bytes[2] \in Kinds

FromSlice(bytes) == EntryOf(bytes[2])

\* A faulty is_some that takes Level::None for a level.
LevelAny(level) == TRUE

\* Level::is_some
LevelIsSome(level) == level # ""

\* Message::report(..).is_some(): a last span and a level
MessageReports(m) == m.spans # <<>> /\ LevelIsSome(m.level)

\* Message::report: the level, and the file and line:column of the span
\* it takes from the message, `v.last()`.
Report(m) ==
    IF MessageReports(m)
    THEN Some([level |-> m.level,
               file |-> m.spans[Len(m.spans)].file_name,
               line |-> <<m.spans[Len(m.spans)].line_start,
                          m.spans[Len(m.spans)].column_start>>])
    ELSE None

\* Entry::report(..).is_some()
EntryReports(e) == e.message # None /\ MessageReports(e.message[1])

\* Entry::rendered
Rendered(e) == IF e.message = None THEN None ELSE e.message[1].rendered

----------------------------------------------------------------------------
(* The decoder: lib.rs, Analyzer *)

BUFFER_LEN == 100

\* A faulty add_to_buffer that reads once instead of looping.
AddToBufferOnce(buf, pip) ==
    IF Contains(buf, NL) \/ pip = <<>> THEN {<<buf, pip>>}
    ELSE {<<buf \o Take(pip, len), Drop(pip, len)>> :
              len \in 1..Min(BUFFER_LEN, Len(pip))}

\* add_to_buffer: read until the buffer holds a newline or the pipe has
\* ended; each read returns 1..BUFFER_LEN of the bytes still to come.  The
\* set of (buffer, pipe) pairs the loop can end with.
RECURSIVE AddToBuffer(_, _)
AddToBuffer(buf, pip) ==
    IF Contains(buf, NL) THEN {<<buf, pip>>}
    ELSE IF pip = <<>> THEN {<<buf, pip>>}
    ELSE UNION {AddToBuffer(buf \o Take(pip, len), Drop(pip, len)) :
                    len \in 1..Min(BUFFER_LEN, Len(pip))}

\* while let Some(byte) = buffer.pop_front().filter(|&b| b != b'\n')
RECURSIVE PopFront(_, _)
PopFront(entry_buffer, buf) ==
    IF buf = <<>> THEN <<entry_buffer, buf>>
    ELSE IF Head(buf) = NL THEN <<entry_buffer, Tail(buf)>>
    ELSE PopFront(Append(entry_buffer, Head(buf)), Tail(buf))

\* One call of next() up to the parse: what it can hand to serde_json, and
\* the buffer and pipe it leaves.
\* `eof`: the loop of add_to_buffer ended on a read of length 0.
NextOutcomes(buf, pip) ==
    {[entry_buffer |-> PopFront(<<>>, s[1])[1],
      buffer |-> PopFront(<<>>, s[1])[2],
      pipe |-> s[2],
      eof |-> ~Contains(s[1], NL)] : s \in AddToBuffer(buf, pip)}

\* lib.rs:119, .stderr(Stdio::piped()): a child that writes nothing to
\* its stderr.
NoStderr == [left |-> 0, held |-> 0]

\* A child that exits with output left to write.
ExitedAnyway(err) == TRUE

\* The child has exited, which closes its stdout and lets wait() return:
\* it has written all it had to write.  What it writes to stdout the
\* decoder reads, so those writes are taken as done; what it writes to
\* stderr has to fit the pipe.
Exited(err) == err.left = 0

----------------------------------------------------------------------------
(* The checker's output *)

Record(k) == <<"{", k, "}">>

Malformed == <<"{", "W">>

RecordSet == {Record(k) : k \in Kinds} \cup {Malformed}

Fragments == {<<>>, <<"{">>, <<"{", "E">>, Record("W")}

RECURSIVE Lines(_)
Lines(recs) ==
    IF recs = <<>> THEN <<>> ELSE Head(recs) \o <<NL>> \o Lines(Tail(recs))

Stream(recs, frag) == Lines(recs) \o frag

----------------------------------------------------------------------------
(* Command text: main.rs, command_exits and the dispatch of the watch loop. *)
(* A line is a sequence of characters.                                      *)

IsWhitespace(c) == c \in {" ", "\t"}

RECURSIVE TrimStart(_)
TrimStart(s) ==
    IF s # <<>> /\ IsWhitespace(Head(s)) THEN TrimStart(Tail(s)) ELSE s

RECURSIVE TrimEnd(_)
TrimEnd(s) ==
    IF s # <<>> /\ IsWhitespace(s[Len(s)]) THEN TrimEnd(Take(s, Len(s) - 1))
    ELSE s

\* str::trim
Trim(s) == TrimEnd(TrimStart(s))

\* str::starts_with
StartsWith(s, prefix) == IsPrefix(prefix, s)

\* str::split_whitespace, as the sequence of its items
RECURSIVE SplitWhitespace(_, _)
SplitWhitespace(word, s) ==
    IF s = <<>> THEN (IF word = <<>> THEN <<>> ELSE <<word>>)
    ELSE IF IsWhitespace(Head(s))
         THEN (IF word = <<>> THEN <<>> ELSE <<word>>)
              \o SplitWhitespace(<<>>, Tail(s))
         ELSE SplitWhitespace(Append(word, Head(s)), Tail(s))

Digits == <<"0", "1", "2", "3", "4", "5", "6", "7", "8", "9">>

DigitValue(c) == CHOOSE d \in 0..9 : Digits[d + 1] = c

\* str::parse::<usize>: Some(n) for a non-empty run of digits, else None
RECURSIVE ParseDigits(_, _)
ParseDigits(n, s) ==
    IF s = <<>> THEN Some(n)
    ELSE IF Contains(Digits, Head(s))
         THEN ParseDigits(10 * n + DigitValue(Head(s)), Tail(s))
         ELSE None

ParseUsize(s) == IF s = <<>> THEN None ELSE ParseDigits(0, s)

\* A faulty command_exits that leaves out "q".
CommandExitsNoQ(command) ==
    Trim(command) \in {<<"q", "u", "i", "t">>, <<"e", "x", "i", "t">>}

\* A faulty command_exits that compares the line as it was read.
CommandExitsRaw(command) ==
    command \in {<<"q", "u", "i", "t">>, <<"e", "x", "i", "t">>, <<"q">>}

\* main.rs:191
command_exits(command) ==
    Trim(command) \in {<<"q", "u", "i", "t">>, <<"e", "x", "i", "t">>, <<"q">>}

\* The lines the user types.
InputLines ==
    { <<"f", "i", "x", " ", "0">>,
      <<"0">>,
      <<"q">>,
      <<" ", "e", "x", "i", "t">>,
      <<" ">> }

----------------------------------------------------------------------------
(* Fixes.  Message::replacement_span and Span::replace_in_file are called   *)
(* by main.rs and are not part of the library source at hand; they follow   *)
(* sections 4.3 and 4.4 of the specification.                               *)

\* The first span of the message, then of its children depth-first, that
\* carries a suggested replacement.
RECURSIVE FirstReplacement(_)
FirstReplacement(msgs) ==
    IF msgs = <<>> THEN None
    ELSE LET m == Head(msgs)
             own == SelectSeq(m.spans,
                              LAMBDA sp : sp.suggested_replacement # None)
         IN  IF own # <<>> THEN Some(Head(own))
             ELSE LET below == FirstReplacement(m.children)
                  IN  IF below # None THEN below
                      ELSE FirstReplacement(Tail(msgs))

replacement_span(m) == FirstReplacement(<<m>>)

\* A faulty apply that inserts the replacement and removes nothing.
ReplaceInserts(span, content, io) ==
    IF ~io THEN [ok |-> FALSE, err |-> "io", content |-> content]
    ELSE IF span.byte_start > span.byte_end \/ span.byte_end > Len(content)
    THEN [ok |-> FALSE, err |-> "range out of bounds", content |-> content]
    ELSE [ok |-> TRUE, err |-> "",
          content |-> Take(content, span.byte_start)
                        \o span.suggested_replacement[1]
                        \o Drop(content, span.byte_start)]

\* A faulty apply that only checks the end of the range against the file.
ReplaceUnordered(span, content, io) ==
    IF ~io THEN [ok |-> FALSE, err |-> "io", content |-> content]
    ELSE IF span.byte_end > Len(content)
    THEN [ok |-> FALSE, err |-> "range out of bounds", content |-> content]
    ELSE [ok |-> TRUE, err |-> "",
          content |-> Take(content, Min(span.byte_start, Len(content)))
                        \o span.suggested_replacement[1]
                        \o Drop(content, span.byte_end)]

\* apply(span, replacement) on a file that holds `content`; `io` is whether
\* the file can be read and written.
replace_in_file(span, content, io) ==
    IF ~io THEN [ok |-> FALSE, err |-> "io", content |-> content]
    ELSE IF span.byte_start > span.byte_end \/ span.byte_end > Len(content)
    THEN [ok |-> FALSE, err |-> "range out of bounds", content |-> content]
    ELSE [ok |-> TRUE, err |-> "",
          content |-> Take(content, span.byte_start)
                        \o span.suggested_replacement[1]
                        \o Drop(content, span.byte_end)]

FileNames == {"src/a.rs", "build.rs"}

\* main.rs:233-250: "src", Cargo.toml and the workspace members are watched.
Watched(file) == file \in {"src/a.rs"}

----------------------------------------------------------------------------
(* Initial states *)

NoOp == [kind |-> "none", index |-> 0, issued |-> 0, snap |-> 0]

Quiet ==
    /\ entries = <<>>
    /\ collected = <<>>
    /\ printed = <<>>
    /\ yielded = <<>>
    /\ parsed = <<>>
    /\ buffer = <<>>
    /\ snap = 0
    /\ spawned = FALSE
    /\ reader = "none"
    /\ typed = 0
    /\ heard = None
    /\ command_rx = <<>>
    /\ event_rx = <<>>
    /\ window = 0
    /\ rawIn = <<>>
    /\ ranFor = <<>>
    /\ writes = 0
    /\ files = [f \in FileNames |-> <<"a", "b">>]
    /\ out = ""
    /\ lastOp = NoOp
    /\ fixPending = FALSE

\* main, on entry to the watch subcommand
Init ==
    /\ Quiet
    /\ pc = "start"
    /\ records = <<>>
    /\ fragment = <<>>
    /\ pipe = <<>>
    /\ stderr = NoStderr
    /\ live = 0
    /\ runs = 0

\* An Analyzer just built on a child that writes any stream of at most
\* MaxRecords lines and a trailing fragment, consumed by run.
InitDecoder ==
    /\ Quiet
    /\ pc = "running"
    /\ records \in SeqsUpTo(RecordSet, MaxRecords)
    /\ fragment \in Fragments
    /\ pipe = Stream(records, fragment)
    /\ stderr = NoStderr
    /\ live = 1
    /\ runs = 1

----------------------------------------------------------------------------
(* run: main.rs:61-130, driving Analyzer::next, lib.rs:155-183 *)

\* What the checker writes in a run of the watch loop.
CheckerOutputs ==
    { <<<<Record("A")>>, <<>>>>,
      <<<<Record("W")>>, <<>>>>,
      <<<<Record("N"), Record("E")>>, <<>>>>,
      <<<<Record("U")>>, <<>>>>,
      <<<<Record("E"), Malformed, Record("W")>>, <<>>>> }

\* Analyzer::with_args(..).unwrap() at the head of run: the child is
\* spawned with a fresh buffer, or the spawn fails and unwrap panics.
StartRun(ok, recs, frag) ==
    IF ok
    THEN /\ pc' = "running"
         /\ records' = recs
         /\ fragment' = frag
         /\ pipe' = Stream(recs, frag)
         /\ stderr' = NoStderr
         /\ buffer' = <<>>
         /\ yielded' = <<>>
         /\ parsed' = <<>>
         /\ collected' = <<>>
         /\ printed' = <<>>
         /\ live' = live + 1
         /\ runs' = runs + 1
         /\ fixPending' = FALSE
    ELSE /\ pc' = "panicked"
         /\ UNCHANGED <<records, fragment, pipe, stderr, buffer, yielded,
                        parsed,
                        collected, printed, live, runs, fixPending>>

\* main.rs:228, the run before the loop
InitialRun ==
    /\ pc = "start"
    /\ \E ok \in BOOLEAN, o \in CheckerOutputs : StartRun(ok, o[1], o[2])
    /\ UNCHANGED <<entries, snap, spawned, files, out, lastOp>>
    /\ UNCHANGED threadVars
    /\ UNCHANGED watchVars

\* A faulty run that empties the watch channel as it goes.
RunDrainsEvents == event_rx' = <<>> /\ UNCHANGED command_rx

\* run and next() use neither channel.
RunLeavesChannels == UNCHANGED <<command_rx, event_rx>>

\* .filter(report().is_some()).enumerate().inspect(print::entry).collect():
\* one entry through the adapters of run.
Collect(e) ==
    IF EntryReports(e)
    THEN /\ printed' = Append(printed, <<Len(collected), e>>)
         /\ collected' = Append(collected, e)
    ELSE UNCHANGED <<printed, collected>>

\* next() returns Some(entry)
NextSome ==
    /\ pc = "running"
    /\ \E o \in NextOutcomes(buffer, pipe) :
          /\ o.entry_buffer # <<>>
          /\ o.eof => Exited(stderr)
          /\ ParseOk(o.entry_buffer)
          /\ buffer' = o.buffer
          /\ pipe' = o.pipe
          /\ parsed' = Append(parsed, o.entry_buffer)
          /\ yielded' = Append(yielded, FromSlice(o.entry_buffer))
          /\ Collect(FromSlice(o.entry_buffer))
    /\ UNCHANGED <<pc, entries, records, fragment, live, runs, snap, spawned,
                   files, out, lastOp, fixPending>>
    /\ RunLeavesChannels
    /\ UNCHANGED <<stderr, reader, typed, heard, window, rawIn, ranFor,
                   writes>>

\* serde_json::from_slice(..).unwrap() panics
NextPanic ==
    /\ pc = "running"
    /\ \E o \in NextOutcomes(buffer, pipe) :
          /\ o.entry_buffer # <<>>
          /\ o.eof => Exited(stderr)
          /\ ~ParseOk(o.entry_buffer)
          /\ buffer' = o.buffer
          /\ pipe' = o.pipe
          /\ parsed' = Append(parsed, o.entry_buffer)
    /\ pc' = "panicked"
    /\ UNCHANGED <<entries, collected, printed, yielded, records, fragment,
                   live, runs, snap, spawned, files, out, lastOp, fixPending>>
    /\ RunLeavesChannels
    /\ UNCHANGED <<stderr, reader, typed, heard, window, rawIn, ranFor,
                   writes>>

\* A faulty next() that does not wait on the child.
NotReaped(n) == n

\* lib.rs:179-181: self.child.wait() when next() has nothing to return
Reaped(n) == n - 1

\* A faulty assignment that extends the snapshot instead of replacing it.
Merged(old, new) == old \o new

\* main.rs:228 and 261: `entries` is assigned what run collected
Assigned(old, new) == new

\* A faulty loop that goes back to the events after a run.
AfterRunPolls == IF spawned THEN "poll" ELSE "setup"

\* main.rs:228-229 and 260-264: where main goes on when run returns: to
\* the set-up after the initial run, to the commands of the same iteration
\* after a run of the loop.
AfterRun == IF spawned THEN "command" ELSE "setup"

\* next() returns None: the child is waited on, collect() ends, run returns
\* and main assigns the result to `entries`.
NextNone ==
    /\ pc = "running"
    /\ \E o \in NextOutcomes(buffer, pipe) :
          /\ o.entry_buffer = <<>>
          /\ buffer' = o.buffer
          /\ pipe' = o.pipe
    /\ Exited(stderr)
    /\ live' = Reaped(live)
    /\ entries' = Assigned(entries, collected)
    /\ snap' = snap + 1
    /\ pc' = AfterRun
    /\ UNCHANGED <<collected, printed, yielded, parsed, records, fragment,
                   runs, spawned, files, out, lastOp, fixPending>>
    /\ RunLeavesChannels
    /\ UNCHANGED <<stderr, reader, typed, heard, window, rawIn, ranFor,
                   writes>>

----------------------------------------------------------------------------
(* The watch loop: main.rs:229-324 *)

Stopped == pc \in {"done", "panicked", "aborted"}

\* main.rs:229-250: the input thread is spawned and the watcher registered;
\* a failed registration returns the error from main.
Setup ==
    /\ pc = "setup"
    /\ \E ok \in BOOLEAN :
          IF ok
          THEN /\ pc' = "poll"
               /\ spawned' = TRUE
               /\ reader' = "reading"
          ELSE /\ pc' = "aborted"
               /\ UNCHANGED <<spawned, reader>>
    /\ UNCHANGED <<entries, collected, printed, records, fragment, live,
                   runs, snap, typed, heard, command_rx, files, out, lastOp,
                   fixPending>>
    /\ UNCHANGED decoderVars
    /\ UNCHANGED watchVars

\* A faulty test that takes a created file for a write as well.
IsWriteOrCreate(event) == event.kind \in {"Write", "Create"}

\* A faulty test that takes every notification for a write.
IsAnyEvent(event) == TRUE

\* main.rs:256: if let DebouncedEvent::Write(_) = event
IsWrite(event) == event.kind = "Write"

\* The windows whose notifications set got_event in this poll.
Triggering(q) == {q[i].win : i \in {j \in 1..Len(q) : IsWrite(q[j])}}

\* A faulty poll that receives one notification and leaves the rest.
DrainedOne(q) == IF q = <<>> THEN q ELSE Tail(q)

\* main.rs:255: while let Ok(event) = event_rx.try_recv() receives all that
\* is queued; what it leaves in the channel.
Drained(q) == <<>>

\* main.rs:254-262: drain the watch channel, and run if a write was seen.
PollEvents ==
    /\ pc = "poll"
    /\ event_rx' = Drained(event_rx)
    /\ LET got_event == Triggering(event_rx) # {}
       IN  IF got_event
           THEN \E ok \in BOOLEAN, o \in CheckerOutputs :
                   /\ StartRun(ok, o[1], o[2])
                   /\ ranFor' = [w \in DOMAIN ranFor |->
                                   IF ok /\ w \in Triggering(event_rx)
                                   THEN ranFor[w] + 1 ELSE ranFor[w]]
           ELSE /\ pc' = "command"
                /\ UNCHANGED <<records, fragment, pipe, stderr, buffer, yielded,
                               parsed, collected, printed, live, runs,
                               fixPending, ranFor>>
    /\ out' = ""
    /\ lastOp' = NoOp
    /\ UNCHANGED <<entries, snap, spawned, files, window, rawIn, writes>>
    /\ UNCHANGED threadVars

\* A write to `file` as the debouncing watcher sees it: the first write of
\* a window is announced at once, the later ones only extend the window.
Notify(file) ==
    IF ~Watched(file) THEN UNCHANGED <<event_rx, window, rawIn, ranFor>>
    ELSE IF window = 0
    THEN /\ window' = Len(rawIn) + 1
         /\ rawIn' = Append(rawIn, 1)
         /\ ranFor' = Append(ranFor, 0)
         /\ event_rx' = Append(event_rx,
                               [kind |-> "NoticeWrite", win |-> Len(rawIn) + 1])
    ELSE /\ rawIn' = [rawIn EXCEPT ![window] = @ + 1]
         /\ UNCHANGED <<event_rx, window, ranFor>>

\* A faulty fix that drops the error of replace_in_file.
FixOutcomeSwallowed(res) == "Fixed, recompiling..."

\* main.rs:276-279 and 292-300: what a fix prints for the result of
\* replace_in_file.
FixOutcome(res) ==
    IF res.ok THEN "Fixed, recompiling..." ELSE "Error: " \o res.err

\* main.rs:264-320: what one command does to the snapshot and the files.
\* `io` is whether the file of a fix can be read and written.
Interpret(line, io) ==
    LET command == Trim(line)
        same == [out |-> "", exits |-> FALSE, fixed |-> None, op |-> "none",
                 index |-> 0]
    IN
    IF command = <<"h", "e", "l", "p">> THEN [same EXCEPT !.out = "help"]
    ELSE IF StartsWith(command, <<"f", "i", "x", " ">>)
    THEN LET words == SplitWhitespace(<<>>, command) IN
         IF Len(words) < 2 THEN [same EXCEPT !.out = "Fix which index?"]
         ELSE LET i == ParseUsize(words[2]) IN
         IF i = None THEN [same EXCEPT !.out = "Index must be a number"]
         ELSE IF ~(i[1] < Len(entries))
         THEN [same EXCEPT !.out = "Invalid index"]
         ELSE LET message == entries[i[1] + 1].message
                  span == IF message = None THEN None
                          ELSE replacement_span(message[1])
              IN
              IF span = None
              THEN [same EXCEPT !.out = "No replacement available",
                                !.op = "fix", !.index = i[1]]
              ELSE LET res == replace_in_file(span[1],
                                              files[span[1].file_name], io)
                   IN  [same EXCEPT !.out = FixOutcome(res),
                                    !.op = "fix", !.index = i[1],
                                    !.fixed = IF res.ok
                                              THEN Some(<<span[1].file_name,
                                                          res.content>>)
                                              ELSE None]
    ELSE IF command_exits(command)
    THEN [same EXCEPT !.exits = TRUE, !.op = "quit"]
    ELSE LET i == ParseUsize(command) IN
         IF i = None THEN [same EXCEPT !.out = "Unknown command"]
         ELSE IF i[1] < Len(entries)
         THEN [same EXCEPT !.op = "show", !.index = i[1],
                           !.out = IF Rendered(entries[i[1] + 1]) # None
                                   THEN Rendered(entries[i[1] + 1])[1]
                                   ELSE "No render available"]
         ELSE [same EXCEPT !.out = "Invalid index"]

\* main.rs:264-322: try_recv on the command channel, the command if there
\* is one, then the sleep.
Command ==
    /\ pc = "command"
    /\ IF command_rx = <<>>
       THEN /\ pc' = "poll"
            /\ UNCHANGED <<command_rx, files, out, lastOp, fixPending,
                           event_rx, window, rawIn, ranFor>>
       ELSE \E io \in BOOLEAN :
            LET c == Head(command_rx)
                r == Interpret(c.line, io)
            IN  /\ command_rx' = Tail(command_rx)
                /\ pc' = IF r.exits THEN "join" ELSE "poll"
                /\ out' = r.out
                /\ lastOp' = IF r.op = "none" THEN NoOp
                             ELSE [kind |-> r.op, index |-> r.index,
                                   issued |-> c.issued, snap |-> snap]
                /\ IF r.fixed # None
                   THEN /\ files' = [files EXCEPT ![r.fixed[1][1]] =
                                                        r.fixed[1][2]]
                        /\ fixPending' = TRUE
                        /\ Notify(r.fixed[1][1])
                   ELSE UNCHANGED <<files, fixPending, event_rx, window,
                                    rawIn, ranFor>>
    /\ UNCHANGED <<entries, collected, printed, records, fragment, live,
                   runs, snap, spawned, reader, typed, heard, writes>>
    /\ UNCHANGED decoderVars

\* main.rs:324: handle.join() after the loop
Join ==
    /\ pc = "join"
    /\ reader = "returned"
    /\ pc' = "done"
    /\ UNCHANGED <<entries, collected, printed, records, fragment, live,
                   runs, snap, spawned, files, out, lastOp, fixPending>>
    /\ UNCHANGED decoderVars
    /\ UNCHANGED threadVars
    /\ UNCHANGED watchVars

----------------------------------------------------------------------------
(* The input thread: main.rs:198-211 *)

\* A faulty test that sends blank lines too.
ForwardsAll(command) == TRUE

\* main.rs:202: if !command.trim().is_empty()
Forwards(command) == Trim(command) # <<>>

\* One line of stdin: sent if it is not blank, and the thread returns if
\* it is an exit keyword.  The line carries the number of the snapshot on
\* screen when it was entered.
StdinLine ==
    /\ spawned
    /\ ~Stopped
    /\ reader = "reading"
    /\ typed < MaxLines
    /\ \E command \in InputLines :
          /\ command_rx' = IF Forwards(command)
                           THEN Append(command_rx,
                                       [line |-> command, issued |-> snap])
                           ELSE command_rx
          /\ reader' = IF command_exits(command) THEN "returned"
                       ELSE "reading"
          /\ heard' = Some(command)
    /\ typed' = typed + 1
    /\ UNCHANGED <<pc, entries, collected, printed, records, fragment, live,
                   runs, snap, spawned, files, out, lastOp, fixPending>>
    /\ UNCHANGED decoderVars
    /\ UNCHANGED watchVars

\* stdin ends: the for loop over its lines ends
StdinEnds ==
    /\ spawned
    /\ ~Stopped
    /\ reader = "reading"
    /\ reader' = "returned"
    /\ UNCHANGED <<pc, entries, collected, printed, records, fragment, live,
                   runs, snap, spawned, typed, heard, command_rx, files, out,
                   lastOp, fixPending>>
    /\ UNCHANGED decoderVars
    /\ UNCHANGED watchVars

----------------------------------------------------------------------------
(* The watcher: main.rs:230-231, notify's debounced watcher with a window   *)
(* of two seconds, as section 5 of the specification describes it.          *)

\* Another program writes a watched file.
ExternalWrite ==
    /\ spawned
    /\ ~Stopped
    /\ writes < MaxWrites
    /\ writes' = writes + 1
    /\ Notify("src/a.rs")
    /\ UNCHANGED <<pc, entries, collected, printed, records, fragment, live,
                   runs, snap, spawned, files, out, lastOp, fixPending>>
    /\ UNCHANGED decoderVars
    /\ UNCHANGED threadVars

\* The window closes: its writes are sent as one Write notification.
DebounceFire ==
    /\ spawned
    /\ ~Stopped
    /\ window # 0
    /\ event_rx' = Append(event_rx, [kind |-> "Write", win |-> window])
    /\ window' = 0
    /\ UNCHANGED <<pc, entries, collected, printed, records, fragment, live,
                   runs, snap, spawned, files, out, lastOp, fixPending,
                   rawIn, ranFor, writes>>
    /\ UNCHANGED decoderVars
    /\ UNCHANGED threadVars

\* The other notifications of the debounced watcher.
OtherEvents ==
    {"NoticeRemove", "Create", "Chmod", "Remove", "Rename", "Rescan", "Error"}

\* Another program creates, removes, renames or changes the mode of a
\* watched file, or the watcher reports a rescan or an error.
ExternalChange ==
    /\ spawned
    /\ ~Stopped
    /\ writes < MaxWrites
    /\ writes' = writes + 1
    /\ \E kind \in OtherEvents :
          event_rx' = Append(event_rx, [kind |-> kind, win |-> 0])
    /\ UNCHANGED <<pc, entries, collected, printed, records, fragment, live,
                   runs, snap, spawned, files, out, lastOp, fixPending,
                   window, rawIn, ranFor>>
    /\ UNCHANGED decoderVars
    /\ UNCHANGED threadVars

----------------------------------------------------------------------------
(* Specifications *)

Next ==
    \/ InitialRun
    \/ NextSome
    \/ NextPanic
    \/ NextNone
    \/ Setup
    \/ PollEvents
    \/ Command
    \/ Join
    \/ StdinLine
    \/ StdinEnds
    \/ ExternalWrite
    \/ DebounceFire

Spec == Init /\ [][Next]_vars

NextDecoder ==
    \/ NextSome
    \/ NextPanic
    \/ NextNone

SpecDecoder == InitDecoder /\ [][NextDecoder]_vars

\* Command texts: the keywords, alone and inside other commands.
CommandTexts ==
    { <<"h", "e", "l", "p">>,
      <<"q", "u", "i", "t">>,
      <<"e", "x", "i", "t">>,
      <<"q">>,
      <<"Q", "u", "i", "t">>,
      <<"q", " ", "q">>,
      <<"q", "u", "i", "t", " ", "0">>,
      <<"f", "i", "x">>,
      <<"f", "i", "x", " ", "0">>,
      <<"f", "i", "x", " ", "q">>,
      <<"f", "i", "x", " ", "q", "u", "i", "t">>,
      <<"f", "i", "x", " ", "e", "x", "i", "t">>,
      <<"h", "e", "l", "p", " ", "q">>,
      <<"0">>,
      <<>> }

\* The lines of stdin: a command text with or without blanks around it.
AllLines ==
    {pre \o text \o post :
        pre \in {<<>>, <<" ">>}, text \in CommandTexts,
        post \in {<<>>, <<" ">>, <<"\t">>}}

\* The loop is idle on the snapshot of the initial run, and the input
\* thread has read its first line, any of AllLines.
InitShutdown ==
    /\ pc = "poll"
    /\ entries = <<EntryOf("W")>>
    /\ collected = <<EntryOf("W")>>
    /\ printed = <<<<0, EntryOf("W")>>>>
    /\ yielded = <<EntryOf("W")>>
    /\ parsed = <<Record("W")>>
    /\ records = <<Record("W")>>
    /\ fragment = <<>>
    /\ pipe = <<>>
    /\ stderr = NoStderr
    /\ buffer = <<>>
    /\ live = 0
    /\ runs = 1
    /\ snap = 1
    /\ spawned = TRUE
    /\ \E command \in AllLines :
          /\ command_rx = IF Forwards(command)
                           THEN <<[line |-> command, issued |-> 1]>>
                           ELSE <<>>
          /\ reader = IF command_exits(command) THEN "returned"
                       ELSE "reading"
          /\ heard = Some(command)
    /\ typed = 1
    /\ event_rx = <<>>
    /\ window = 0
    /\ rawIn = <<>>
    /\ ranFor = <<>>
    /\ writes = 0
    /\ files = [f \in FileNames |-> <<"a", "b">>]
    /\ out = ""
    /\ lastOp = NoOp
    /\ fixPending = FALSE

NextShutdown ==
    \/ PollEvents
    \/ Command
    \/ Join
    \/ StdinLine
    \/ StdinEnds

SpecShutdown == InitShutdown /\ [][NextShutdown]_vars

\* What the input thread may have sent by the time the loop polls.
Queues ==
    { <<<<"f", "i", "x", " ", "0">>, <<"0">>>>,
      <<<<"0">>, <<"q">>>> }

\* The loop is idle on the snapshot of the initial run with commands
\* waiting, and stdin gives nothing more.
InitQueue ==
    /\ pc = "poll"
    /\ entries = <<EntryOf("W")>>
    /\ collected = <<EntryOf("W")>>
    /\ printed = <<<<0, EntryOf("W")>>>>
    /\ yielded = <<EntryOf("W")>>
    /\ parsed = <<Record("W")>>
    /\ records = <<Record("W")>>
    /\ fragment = <<>>
    /\ pipe = <<>>
    /\ stderr = NoStderr
    /\ buffer = <<>>
    /\ live = 0
    /\ runs = 1
    /\ snap = 1
    /\ spawned = TRUE
    /\ \E q \in Queues :
          /\ command_rx = [i \in 1..Len(q) |-> [line |-> q[i], issued |-> 1]]
          /\ heard = Some(q[Len(q)])
          /\ typed = Len(q)
    /\ reader = "returned"
    /\ event_rx = <<>>
    /\ window = 0
    /\ rawIn = <<>>
    /\ ranFor = <<>>
    /\ writes = 0
    /\ files = [f \in FileNames |-> <<"a", "b">>]
    /\ out = ""
    /\ lastOp = NoOp
    /\ fixPending = FALSE

NextQueue ==
    \/ PollEvents
    \/ NextSome
    \/ NextPanic
    \/ NextNone
    \/ Command
    \/ Join
    \/ ExternalWrite
    \/ DebounceFire

SpecQueue == InitQueue /\ [][NextQueue]_vars

\* An Analyzer on a child whose output may hold empty lines as well.
InitStream ==
    /\ Quiet
    /\ pc = "running"
    /\ records \in SeqsUpTo(RecordSet \cup {<<>>}, MaxRecords)
    /\ fragment = <<>>
    /\ pipe = Stream(records, fragment)
    /\ stderr = NoStderr
    /\ live = 1
    /\ runs = 1

SpecStream == InitStream /\ [][NextDecoder]_vars

\* The child writes to its stderr, which blocks while the pipe is full.
ChildStderr ==
    /\ stderr.left > 0
    /\ stderr.held < PipeCapacity
    /\ stderr' = [left |-> stderr.left - 1, held |-> stderr.held + 1]
    /\ UNCHANGED <<pc, entries, collected, printed, yielded, parsed, records,
                   fragment, pipe, buffer, live, runs, snap, spawned, files,
                   out, lastOp, fixPending>>
    /\ UNCHANGED threadVars
    /\ UNCHANGED watchVars

\* An Analyzer on a child that writes a finite stream to its stdout and
\* has up to one write more than the pipe holds to make to its stderr.
InitChild ==
    /\ Quiet
    /\ pc = "running"
    /\ records \in SeqsUpTo(RecordSet, MaxRecords)
    /\ fragment \in Fragments
    /\ pipe = Stream(records, fragment)
    /\ \E n \in 0..(PipeCapacity + 1) : stderr = [left |-> n, held |-> 0]
    /\ live = 1
    /\ runs = 1

NextChild ==
    \/ NextSome
    \/ NextPanic
    \/ NextNone
    \/ ChildStderr

SpecChild == InitChild /\ [][NextChild]_vars

\* The decoder runs whenever it can and so does the child.
FairChild == SpecChild /\ WF_vars(NextDecoder) /\ WF_vars(ChildStderr)

\* The main thread: it runs whenever it can, and so does the watcher's
\* timer.  Nothing obliges the user to type or a program to write.
MainThread ==
    \/ InitialRun
    \/ NextSome
    \/ NextPanic
    \/ NextNone
    \/ Setup
    \/ PollEvents
    \/ Command
    \/ Join

FairSpec == Spec /\ WF_vars(MainThread) /\ WF_vars(DebounceFire)

FairQueue == SpecQueue /\ WF_vars(MainThread) /\ WF_vars(DebounceFire)

\* The watch loop with every kind of notification, while the user types
\* nothing.
NextWatch ==
    \/ InitialRun
    \/ NextSome
    \/ NextPanic
    \/ NextNone
    \/ Setup
    \/ PollEvents
    \/ Command
    \/ ExternalWrite
    \/ ExternalChange
    \/ DebounceFire

SpecWatch == Init /\ [][NextWatch]_vars

\* The contents of the file a fix is applied to.
Contents ==
    SeqsUpTo({"a", "b"}, MaxContent)
        \cup {<<"a", "b", "c", "d", "e", "f", "g", "h">>}

Replacements == {<<>>, <<"x">>, <<"X", "Y", "Z">>}

\* The spans with a suggested replacement: every range up to one past the
\* longest of the short files, and the range 2..5.
FixSpans ==
    {Span("src/a.rs", start, end, Some(repl)) :
        start \in 0..(MaxContent + 1), end \in 0..(MaxContent + 1),
        repl \in Replacements}
    \cup {Span("src/a.rs", 2, 5, Some(<<"X", "Y", "Z">>))}

FixEntry(span) ==
    [reason |-> "compiler-message",
     message |-> Some(Msg("warning", <<span>>, <<>>, None))]

\* The loop is idle on a snapshot of one message that suggests a
\* replacement, and "fix 0" has been entered; the text of the run that
\* gave the snapshot is left out.
InitFix ==
    /\ pc = "command"
    /\ \E span \in FixSpans :
          /\ entries = <<FixEntry(span)>>
          /\ collected = <<FixEntry(span)>>
          /\ printed = <<<<0, FixEntry(span)>>>>
          /\ yielded = <<FixEntry(span)>>
    /\ \E content \in Contents : files = [f \in FileNames |-> content]
    /\ command_rx = <<[line |-> <<"f", "i", "x", " ", "0">>, issued |-> 1]>>
    /\ parsed = <<>>
    /\ records = <<>>
    /\ fragment = <<>>
    /\ pipe = <<>>
    /\ stderr = NoStderr
    /\ buffer = <<>>
    /\ live = 0
    /\ runs = 1
    /\ snap = 1
    /\ spawned = TRUE
    /\ reader = "reading"
    /\ typed = 1
    /\ heard = Some(<<"f", "i", "x", " ", "0">>)
    /\ event_rx = <<>>
    /\ window = 0
    /\ rawIn = <<>>
    /\ ranFor = <<>>
    /\ writes = 0
    /\ out = ""
    /\ lastOp = NoOp
    /\ fixPending = FALSE

NextFix ==
    \/ Command
    \/ PollEvents

SpecFix == InitFix /\ [][NextFix]_vars

----------------------------------------------------------------------------
(* The decoder's claims, under SpecDecoder *)

WellFormed(recs) == \A i \in 1..Len(recs) : ParseOk(recs[i])

Decoded(recs) == [i \in 1..Len(recs) |-> EntryOf(recs[i][2])]

\* The records up to and with the first malformed one.
UpToMalformed(recs) ==
    IF WellFormed(recs) THEN recs
    ELSE Take(recs, CHOOSE i \in 1..Len(recs) :
                        /\ ~ParseOk(recs[i])
                        /\ WellFormed(Take(recs, i - 1)))

\* C1: for N well-formed newline-terminated records followed by an optional
\* unterminated fragment, next() yields exactly the N events in order and
\* then end-of-stream, and the fragment is never parsed nor emitted.
C1_FragmentDiscarded ==
    WellFormed(records) =>
        /\ IsPrefix(parsed, records)
        /\ pc # "panicked"
        /\ pc # "running" => yielded = Decoded(records)

\* C2: for a stream of newline-terminated records only, what next() yields
\* does not depend on how the stream is split into reads: every buffer
\* handed to the parser is one record without its terminator, in stream
\* order, every event is decoded from it, end-of-stream comes after all
\* the records and a panic at the first malformed one.
C2_SplitIndependent ==
    fragment = <<>> =>
        /\ IsPrefix(parsed, records)
        /\ IsPrefix(yielded, Decoded(parsed))
        /\ Len(parsed) - Len(yielded) = IF pc = "panicked" THEN 1 ELSE 0
        /\ pc = "setup" => parsed = records
        /\ pc = "panicked" => parsed = UpToMalformed(records)

\* A read has ended in the middle of the second record.
C2_Witness ==
    /\ fragment = <<>>
    /\ Len(records) = 2
    /\ pc = "running"
    /\ Len(yielded) = 1
    /\ buffer # <<>>
    /\ ~Contains(buffer, NL)
    /\ pipe # <<>>

----------------------------------------------------------------------------
(* The watch loop's claims, under Spec *)

\* C3: no two runs execute concurrently: at most one child is spawned and
\* not waited on, it exists only while its run is in progress (or has
\* panicked), and every run started before it has completed.
C3_OneRunAtATime ==
    /\ live \in {0, 1}
    /\ runs = snap + live
    /\ pc = "running" => live = 1
    /\ pc \notin {"running", "panicked"} => live = 0

\* The second run is in progress and the child of the first is reaped.
C3_Witness == pc = "running" /\ runs = 2 /\ live = 1 /\ yielded # <<>>

\* C4: while a run is in progress neither channel is serviced: what is
\* queued stays queued in order, and arrivals are added behind it.
C4_QueuedDuringRun ==
    [][pc = "running" =>
         /\ IsPrefix(command_rx, command_rx')
         /\ IsPrefix(event_rx, event_rx')]_vars

\* In the middle of a run of the loop a command and a write notification
\* are waiting.
C4_Witness ==
    /\ pc = "running"
    /\ runs = 2
    /\ yielded # <<>>
    /\ command_rx # <<>>
    /\ \E i \in 1..Len(event_rx) : event_rx[i].kind = "Write"

\* C5: a show or fix command whose index was entered for an earlier
\* snapshot never reaches a message of a newer snapshot.
C5_NoIndexAliasing ==
    lastOp.kind \in {"show", "fix"} => lastOp.issued = lastOp.snap

Reportable(e) ==
    /\ e.reason = "compiler-message"
    /\ e.message # None
    /\ e.message[1].level # ""
    /\ e.message[1].spans # <<>>

Enumerated(s) == [i \in 1..Len(s) |-> <<i - 1, s[i]>>]

\* C6: after a completed run the snapshot is exactly the reportable entries
\* that run's decoder yielded, in order, and nothing else; the index printed
\* beside an entry during the run is its position in the snapshot.
C6_SnapshotReplaced ==
    /\ printed = Enumerated(collected)
    /\ (runs > 0 /\ snap = runs) =>
          /\ entries = SelectSeq(yielded, Reportable)
          /\ printed = Enumerated(entries)

\* The second run has replaced a snapshot of one warning by one of one
\* error, with an entry filtered out before it.
C6_Witness ==
    /\ snap = 2
    /\ pc = "command"
    /\ entries = <<EntryOf("E")>>
    /\ Len(yielded) = 2
    /\ lastOp.kind = "none"

\* C7: whenever a fix succeeds a new run starts before the loop can stay
\* idle for ever: a successful fix is followed by the start of a run,
\* unless the loop has ended or the program has died.
C7_FixStartsRun ==
    fixPending ~> (~fixPending \/ pc \in {"join", "done"} \/ Stopped)

\* The main thread receives a command in this step.
CommandStep == pc = "command" /\ command_rx # <<>> /\ pc' # "command"

Show0 == <<"0">>

Fix0 == <<"f", "i", "x", " ", "0">>

FailureReports ==
    {"Invalid index", "No replacement available", "Error: io",
     "Error: range out of bounds"}

\* C8: a failing command is reported and changes nothing: an index at or
\* past the end of the snapshot gives "Invalid index", a message without a
\* suggestion "No replacement available", a range outside the file or a
\* file that cannot be read the error of replace_in_file; after any of
\* these reports the snapshot, the files and the watcher are as before, no
\* run has started and the loop goes on to its next poll.
C8_FailuresMutateNothing ==
    [][CommandStep =>
         LET line == Head(command_rx).line IN
         /\ (line \in {Show0, Fix0} /\ entries = <<>>)
               => out' = "Invalid index"
         /\ (line = Fix0 /\ entries # <<>> /\ entries[1] = EntryOf("E"))
               => out' = "No replacement available"
         /\ (line = Fix0 /\ entries # <<>> /\ entries[1] = EntryOf("W")
                /\ Len(files["src/a.rs"]) < 2)
               => out' \in {"Error: range out of bounds", "Error: io"}
         /\ out' \in FailureReports
               => /\ pc' = "poll"
                  /\ UNCHANGED <<entries, files, runs, live, snap,
                                 fixPending, event_rx, window, rawIn>>]_vars

\* A fix has just failed on a range that is past the end of the file.
C8_Witness ==
    /\ out = "Error: range out of bounds"
    /\ pc = "poll"
    /\ lastOp.kind = "fix"
    /\ entries # <<>>

ExitLines == {<<"q">>, <<" ", "e", "x", "i", "t">>}

\* C9: a quit command ends the loop when the main thread receives it, and
\* no run starts once it has.
C9_QuitEndsLoop ==
    [][/\ (CommandStep /\ Head(command_rx).line \in ExitLines)
            => pc' = "join"
       /\ pc \in {"join", "done"}
            => (runs' = runs /\ pc' \in {"join", "done"})]_vars

\* The loop has ended on a quit that was entered before the second run
\* was over and received after it.
C9_Witness ==
    /\ pc = "done"
    /\ lastOp.kind = "quit"
    /\ lastOp.issued < lastOp.snap

WriteOf(w) == [kind |-> "Write", win |-> w]

\* C10: the writes of one debounce window produce one Write notification,
\* and exactly one run is started on their account: none before the
\* notification is received, one when it is, none after.
C10_OneRunPerWindow ==
    \A w \in DOMAIN ranFor :
        LET queued == {i \in DOMAIN event_rx : event_rx[i] = WriteOf(w)} IN
        /\ rawIn[w] >= 1
        /\ Cardinality(queued) <= 1
        /\ ranFor[w] <= 1
        /\ (w = window \/ queued # {}) => ranFor[w] = 0
        /\ (w # window /\ queued = {} /\ pc # "panicked") => ranFor[w] = 1

\* A window of two or more writes has had its one run, which is complete.
C10_Witness ==
    \E w \in DOMAIN ranFor :
        /\ rawIn[w] >= 2
        /\ ranFor[w] = 1
        /\ pc = "command"

----------------------------------------------------------------------------
(* The child process and malformed records, under Spec *)

\* C11: the child of every run is waited on: whenever the decoder is not
\* in the middle of a run, for whatever reason it stopped, no child that
\* was spawned is left without a wait.
C11_ChildAlwaysReaped == pc # "running" => live = 0

\* The decoder has consumed the bytes of a record in this step.
DecoderStep == pc = "running" /\ <<buffer, pipe>>' # <<buffer, pipe>>

\* The record the decoder comes to next is malformed.
NextIsMalformed ==
    /\ Len(parsed) < Len(records)
    /\ records[Len(parsed) + 1] = Malformed

\* C12: a malformed line is fatal: the decoder hands it to the parser and
\* does not skip it, the step yields no event, the run ends there without
\* completing, the snapshot stays the one of the last completed run, and
\* nothing happens afterwards: no later event, no snapshot, no run.
C12_MalformedIsFatal ==
    [][/\ (DecoderStep /\ NextIsMalformed)
            => /\ pc' = "panicked"
               /\ parsed' = Append(parsed, records[Len(parsed) + 1])
               /\ UNCHANGED <<yielded, collected, entries, snap, runs>>
       /\ pc = "panicked" => UNCHANGED vars]_vars

\* A run of the loop has died at the malformed second line of three, with
\* one entry collected, and the snapshot is still the earlier run's.
C12_Witness ==
    /\ pc = "panicked"
    /\ Len(records) = 3
    /\ Len(parsed) = 2
    /\ parsed[2] = Malformed
    /\ yielded = <<EntryOf("E")>>
    /\ collected = <<EntryOf("E")>>
    /\ entries = <<EntryOf("W")>>
    /\ snap = 1

----------------------------------------------------------------------------
(* Applying a fix, under SpecFix *)

\* The span of the one message of the snapshot.
FixSpan == entries[1].message[1].spans[1]

FixStep == CommandStep /\ Head(command_rx).line = Fix0 /\ entries # <<>>

InRange(span, content) ==
    /\ 0 <= span.byte_start
    /\ span.byte_start <= span.byte_end
    /\ span.byte_end <= Len(content)

\* `new` is `old` with the bytes from start up to end replaced by repl:
\* the bytes before start and from end on are kept, in order.
IsSplice(old, new, start, end, repl) ==
    /\ Len(new) = Len(old) - (end - start) + Len(repl)
    /\ \A i \in 1..start : new[i] = old[i]
    /\ \A j \in 1..Len(repl) : new[start + j] = repl[j]
    /\ \A k \in (end + 1)..Len(old) :
          new[k - end + start + Len(repl)] = old[k]

\* C13: a fix whose range lies within the file overwrites the file with
\* the bytes before byte_start, the replacement, and the bytes from
\* byte_end on, unless the file cannot be read or written; "abcdefgh"
\* with 2, 5 and "XYZ" becomes "abXYZfgh".
C13_SpliceExact ==
    [][(FixStep /\ InRange(FixSpan, files[FixSpan.file_name])
                /\ out' # "Error: io")
         => LET f == FixSpan.file_name IN
            /\ out' = "Fixed, recompiling..."
            /\ IsSplice(files[f], files'[f], FixSpan.byte_start,
                        FixSpan.byte_end, FixSpan.suggested_replacement[1])
            /\ \A g \in FileNames \ {f} : files'[g] = files[g]
            /\ (/\ files[f] = <<"a", "b", "c", "d", "e", "f", "g", "h">>
                /\ FixSpan.byte_start = 2
                /\ FixSpan.byte_end = 5
                /\ FixSpan.suggested_replacement = Some(<<"X", "Y", "Z">>))
                  => files'[f] = <<"a", "b", "X", "Y", "Z", "f", "g", "h">>]_vars

\* "abcdefgh" has become "abXYZfgh".
C13_Witness ==
    /\ out = "Fixed, recompiling..."
    /\ FixSpan.byte_start = 2
    /\ FixSpan.byte_end = 5
    /\ files["src/a.rs"] = <<"a", "b", "X", "Y", "Z", "f", "g", "h">>

\* C14: a fix whose range starts after its end, or ends past the end of
\* the file, fails with "range out of bounds" (or with the i/o error when
\* the file cannot be read) and leaves every file as it was.
C14_RangeOutOfBounds ==
    [][(FixStep /\ ~InRange(FixSpan, files[FixSpan.file_name]))
         => /\ out' \in {"Error: range out of bounds", "Error: io"}
            /\ files' = files
            /\ UNCHANGED <<fixPending, event_rx, entries>>]_vars

\* A fix has been refused for a range that starts after its end, within
\* the file.
C14_Witness ==
    /\ out = "Error: range out of bounds"
    /\ FixSpan.byte_start > FixSpan.byte_end
    /\ FixSpan.byte_start <= Len(files["src/a.rs"])

----------------------------------------------------------------------------
(* Reports, under SpecDecoder *)

\* The span flagged is_primary when there is one, else the last span.
PrimarySpan(spans) ==
    IF \E i \in 1..Len(spans) : spans[i].is_primary
    THEN spans[CHOOSE i \in 1..Len(spans) : spans[i].is_primary]
    ELSE spans[Len(spans)]

\* C15: the report printed for a message names the file and line:column
\* of the span flagged is_primary, and of the last span only when no span
\* is flagged.
C15_PrimarySpanShown ==
    \A i \in 1..Len(printed) :
        LET m == printed[i][2].message[1]
            shown == Report(m)[1]
        IN  /\ shown.file = PrimarySpan(m.spans).file_name
            /\ shown.line = <<PrimarySpan(m.spans).line_start,
                              PrimarySpan(m.spans).column_start>>

\* A compiler message with a level.
LevelledMessage(e) ==
    /\ e.reason = "compiler-message"
    /\ e.message # None
    /\ e.message[1].level # ""

\* C16: the snapshot holds only compiler messages whose level is not
\* None, and so does what run has collected and what it has printed an
\* index for; an artifact, a build-script event or a message of level
\* None that the decoder yields has no report.
C16_OnlyReportable ==
    /\ \A i \in 1..Len(entries) : LevelledMessage(entries[i])
    /\ \A i \in 1..Len(collected) : LevelledMessage(collected[i])
    /\ \A i \in 1..Len(printed) : LevelledMessage(printed[i][2])
    /\ \A i \in 1..Len(yielded) :
          ~LevelledMessage(yielded[i])
             => \/ yielded[i].message = None
                \/ Report(yielded[i].message[1]) = None

\* A run that yielded a message of level None and then a warning has
\* ended with the warning alone in the snapshot, at index 0.
C16_Witness ==
    /\ pc = "setup"
    /\ yielded = <<EntryOf("N"), EntryOf("W")>>
    /\ entries = <<EntryOf("W")>>
    /\ printed = <<<<0, EntryOf("W")>>>>

----------------------------------------------------------------------------
(* Notifications and runs, under Spec *)

\* The windows whose Write notification the loop has received.
Received ==
    {w \in DOMAIN ranFor :
        /\ w # window
        /\ \A i \in 1..Len(event_rx) : event_rx[i] # WriteOf(w)}

\* The Write notifications waiting in the channel.
QueuedWrites == {i \in 1..Len(event_rx) : event_rx[i].kind = "Write"}

\* C17 as stated: every Write notification received causes a run of its
\* own, so that besides the initial run there are as many runs as
\* notifications received.
C17_RunPerNotification ==
    pc \notin {"start", "panicked"} => runs - 1 = Cardinality(Received)

\* C17, amended: a poll receives every notification that is queued and
\* starts one run if there is a Write among them, however many there are,
\* and none otherwise; runs start nowhere else in the loop.
C17_OneRunPerPoll ==
    [][/\ (pc = "poll" /\ pc' # "poll")
            => /\ event_rx' = <<>>
               /\ QueuedWrites = {} => (runs' = runs /\ pc' = "command")
               /\ QueuedWrites # {}
                    => \/ runs' = runs + 1 /\ pc' = "running"
                       \/ runs' = runs /\ pc' = "panicked"
       /\ runs' # runs => pc \in {"start", "poll"}]_vars

\* One run is in progress for the Write notifications of two windows that
\* were received at the same poll.
C17_Witness ==
    /\ pc = "running"
    /\ runs = 2
    /\ Cardinality(Received) = 2
    /\ \A w \in Received : ranFor[w] = 1

----------------------------------------------------------------------------
(* Notifications of every kind, under SpecWatch *)

\* C18: a poll whose notifications are all of other kinds than Write
\* (notices, create, chmod, remove, rename, rescan, error) receives and
\* drops them: no run starts, no child is spawned, the snapshot stays, and
\* the loop goes on to the commands; a run of the loop starts only at a
\* poll that has a Write among its notifications.
C18_OnlyWritesStartRuns ==
    [][/\ (pc = "poll" /\ pc' # "poll" /\ QueuedWrites = {})
            => /\ pc' = "command"
               /\ event_rx' = <<>>
               /\ UNCHANGED <<runs, live, entries, snap, collected>>
       /\ (pc = "poll" /\ runs' # runs) => QueuedWrites # {}]_vars

\* Two changes that were not writes have been notified and received, and
\* the only run so far is the initial one.
C18_Witness ==
    /\ pc = "command"
    /\ event_rx = <<>>
    /\ writes = 2
    /\ rawIn = <<>>
    /\ runs = 1
    /\ snap = 1

----------------------------------------------------------------------------
(* The input thread, under Spec *)

\* The input thread reads a line in this step.
ReaderStep == typed' # typed

Blank(line) == \A i \in 1..Len(line) : line[i] \in {" ", "\t"}

\* C19: the input thread sends each line that is not blank, behind what
\* the channel holds, and sends nothing for a blank one; it goes on
\* reading unless the line is an exit keyword, which it sends and then
\* returns; once it has returned it reads no line, and nothing else adds
\* to the channel.
C19_ForwardsNonBlank ==
    [][/\ ReaderStep
            => LET line == heard'[1] IN
               /\ reader = "reading"
               /\ Blank(line) => command_rx' = command_rx
               /\ ~Blank(line)
                    => /\ Len(command_rx') = Len(command_rx) + 1
                       /\ IsPrefix(command_rx, command_rx')
                       /\ command_rx'[Len(command_rx')].line = line
               /\ reader' = IF line \in ExitLines THEN "returned"
                            ELSE "reading"
       /\ ~ReaderStep
            => \/ command_rx' = command_rx
               \/ command_rx # <<>> /\ command_rx' = Tail(command_rx)
       /\ reader = "returned" => (typed' = typed /\ reader' = "returned")]_vars

\* A blank line has been read after the line "0": the channel holds "0"
\* alone and the thread goes on reading.
C19_Witness ==
    /\ typed = 2
    /\ heard = Some(<<" ">>)
    /\ reader = "reading"
    /\ Len(command_rx) = 1
    /\ command_rx[1].line = <<"0">>

----------------------------------------------------------------------------
(* End of stream, under SpecStream *)

\* The lines of the stream that hold a well-formed record.
RecordLines == {i \in 1..Len(records) : ParseOk(records[i])}

\* C20: next() returns None only at the real end of the child's output:
\* when it does, no complete record of the stream remains unread, that is,
\* every line that holds a record has been yielded as an event.
C20_EndOnlyAtRealEnd == pc = "setup" => Len(yielded) = Cardinality(RecordLines)

----------------------------------------------------------------------------
(* Fixes and stale offsets, under Spec *)

\* C21: once a fix has rewritten a file, no fix is applied with the spans
\* of the same snapshot: while a fix has succeeded and no run has started
\* since, no command ends in another successful fix.
C21_NoFixOnStaleSpans ==
    [][(CommandStep /\ fixPending) => out' # "Fixed, recompiling..."]_vars

----------------------------------------------------------------------------
(* Shutdown, under SpecShutdown *)

Blanks == {<<>>, <<" ">>, <<"\t">>}

\* The lines that are an exit keyword with blanks around it.
ExitTexts ==
    {pre \o keyword \o post :
        pre \in Blanks, post \in Blanks,
        keyword \in {<<"q", "u", "i", "t">>, <<"e", "x", "i", "t">>, <<"q">>}}

\* C22: the loop breaks on a command exactly when the command is an exit
\* keyword, whatever else the text is; the input thread has returned on
\* every exit keyword it sent, which is then the last command of the
\* channel, and it goes on reading after any other line; so when the loop
\* has broken the thread has returned and the join does not block.
C22_ShutdownNoDeadlock ==
    /\ [](pc = "join" => reader = "returned")
    /\ []((reader = "reading" /\ heard # None) => heard[1] \notin ExitTexts)
    /\ [](\A i \in 1..Len(command_rx) :
             command_rx[i].line \in ExitTexts
                => (i = Len(command_rx) /\ reader = "returned"))
    /\ [][CommandStep
            => /\ pc' = "join" <=> Head(command_rx).line \in ExitTexts
               /\ pc' = "join" => command_rx' = <<>>]_vars

\* The loop has ended on " quit" followed by a tab, and the join has
\* returned.
C22_Witness ==
    /\ pc = "done"
    /\ heard = Some(<<" ", "q", "u", "i", "t", "\t">>)
    /\ reader = "returned"

----------------------------------------------------------------------------
(* The command channel, under FairQueue *)

\* C23: a command that waits is interpreted: the channel gets shorter
\* whatever its length, unless a run dies.  Commands leave the channel
\* only from its head, one in a step of the loop, and the step does what
\* the head says; a poll of the events receives them all and takes no
\* command; a run of the loop is followed by the commands of the same
\* iteration, so that notifications cannot keep the loop from them.
C23_CommandsInterpreted ==
    /\ \A k \in UNION {1..Len(q) : q \in Queues} :
          (Len(command_rx) = k) ~> (Len(command_rx) < k \/ pc = "panicked")
    /\ [][/\ CommandStep
               => LET line == Head(command_rx).line IN
                  /\ command_rx' = Tail(command_rx)
                  /\ pc' \in {"poll", "join"}
                  /\ (line = Show0 /\ entries # <<>>)
                       => lastOp'.kind = "show"
                  /\ (line = Fix0 /\ entries # <<>>)
                       => lastOp'.kind = "fix"
                  /\ (line \in {Show0, Fix0} /\ entries = <<>>)
                       => out' = "Invalid index"
                  /\ line = <<"q">> => pc' = "join"
          /\ (command_rx' # command_rx) => CommandStep
          /\ (pc = "poll" /\ pc' # "poll")
               => (event_rx' = <<>> /\ command_rx' = command_rx)
          /\ (pc = "running" /\ pc' \notin {"running", "panicked"})
               => pc' = "command"]_vars

\* A command that waited through a run of the loop has been interpreted
\* on the new snapshot, and another is still waiting.
C23_Witness ==
    /\ lastOp.kind = "show"
    /\ lastOp.issued = 1
    /\ lastOp.snap = 2
    /\ command_rx # <<>>
    /\ reader = "returned"
    /\ typed = 2


----------------------------------------------------------------------------
(* C24 *)

\* C24: every run on a child with finite output comes to an end: next()
\* returns None and the wait on the child returns (or the run panics on a
\* malformed line), however much the child writes to its stderr.
C24_RunTerminates == pc = "running" ~> pc # "running"

\* The run is stuck: the decoder has read all of stdout and the child is
\* blocked on a full stderr pipe.
C24_Blocked ==
    /\ pc = "running"
    /\ pipe = <<>>
    /\ stderr.left > 0
    /\ stderr.held = PipeCapacity

====
